---------------------------- MODULE Spec2Model ----------------------------
(***************************************************************************)
(* A model of the log-structured key-value store of src/engines/kvs.rs:    *)
(* KvStore::open / set / get / remove / compact, the log files on disk,    *)
(* the in-memory index of command positions, the reader table, the         *)
(* buffered log writer and the stale-byte counter.                         *)
(*                                                                         *)
(* A log file is a sequence of command records.  Every record has the byte *)
(* length serde_json gives it, the index stores byte offsets and lengths,  *)
(* and a read decodes the bytes found at an offset, so that an index entry *)
(* that does not address a record exactly is a decoding error.             *)
(***************************************************************************)
EXTENDS Integers, Sequences, FiniteSets, TLC

\* ------------------------------------------------------------------ bounds
\* Largest generation number a log file may get (open and compact are
\* disabled once they would go beyond it).
MaxGen == 5
\* Largest number of records the log files hold together (set and remove are
\* disabled while the directory is that full).
MaxRecs == 3
\* The same two bounds for the behaviours in which appends to the log fail.
MaxGenSmall == 3
MaxRecsSmall == 2
\* Number of injected I/O failures and crashes in one behaviour.
MaxFaults == 1

\* ------------------------------------------------------------------ inputs
Keys == {"a", "b"}
\* Values are identified by a number; ValLen gives the byte length of the
\* string the number stands for.
Values == {1, 2}
NoVal == 0

ValLen(v) == IF v = 1 THEN 600000 ELSE 1100000
KeyLen(k) == Len(k)

\* kvs.rs:14
COMPACTION_THRESHOLD == 1024 * 1024

\* --------------------------------------------------------------- commands
\* Command::Set / Command::Remove; "Torn" stands for the bytes of a record
\* whose write was cut short: they decode to no command.
CmdSet(k, v) == [op |-> "Set", key |-> k, val |-> v, len |-> 0]
CmdRemove(k) == [op |-> "Remove", key |-> k, val |-> NoVal, len |-> 0]
Torn(n) == [op |-> "Torn", key |-> "", val |-> NoVal, len |-> n]

\* Byte length of the serde_json encoding of a command:
\*   {"Set":{"key":"<k>","value":"<v>"}}     29 + |k| + |v|
\*   {"Remove":{"key":"<k>"}}                21 + |k|
RecLen(r) ==
    CASE r.op = "Set"    -> 29 + KeyLen(r.key) + ValLen(r.val)
      [] r.op = "Remove" -> 21 + KeyLen(r.key)
      [] OTHER           -> r.len

RECURSIVE FileLen(_)
FileLen(f) == IF f = <<>> THEN 0 ELSE RecLen(Head(f)) + FileLen(Tail(f))

\* Byte offset of the i-th record of file f.
OffsetOf(f, i) == FileLen(SubSeq(f, 1, i - 1))

\* CommandPos with the offset and the length taken for one another.
CommandPosSwapped(gen, pos, len) == [gen |-> gen, pos |-> len, len |-> pos]

\* CommandPos
CommandPos(gen, pos, len) == [gen |-> gen, pos |-> pos, len |-> len]

\* What seek(pos) + take(len) + decode finds in file f: the record that
\* starts at byte pos and is len bytes long, or a decoding failure.
DecodeFail == Torn(0)
ReadAt(f, pos, len) ==
    LET hits == {i \in 1..Len(f) : OffsetOf(f, i) = pos /\ RecLen(f[i]) = len}
    IN  IF hits = {} THEN DecodeFail ELSE f[CHOOSE i \in hits : TRUE]

EmptyIndex == [k \in {} |-> CommandPos(0, 0, 0)]
EmptyDisk == [g \in {} |-> <<>>]

\* BTreeMap::insert / BTreeMap::remove
IndexInsert(idx, k, cp) ==
    [x \in DOMAIN idx \cup {k} |-> IF x = k THEN cp ELSE idx[x]]
IndexRemove(idx, k) == [x \in DOMAIN idx \ {k} |-> idx[x]]

\* ---------------------------------------------------------------- recovery
\* sorted_gen_list without the sort: the generations in descending order.
RECURSIVE UnsortedGenList(_)
UnsortedGenList(gens) ==
    IF gens = {} THEN <<>>
    ELSE LET m == CHOOSE g \in gens : \A h \in gens : g >= h
         IN  <<m>> \o UnsortedGenList(gens \ {m})

\* sorted_gen_list: the generations of the log files, ascending.
RECURSIVE sorted_gen_list(_)
sorted_gen_list(gens) ==
    IF gens = {} THEN <<>>
    ELSE LET m == CHOOSE g \in gens : \A h \in gens : g <= h
         IN  <<m>> \o sorted_gen_list(gens \ {m})

\* load_log that counts no stale bytes for the Remove record itself.
RECURSIVE load_log_remove_uncounted(_, _, _, _, _, _)
load_log_remove_uncounted(gen, f, i, pos, idx, staled) ==
    IF i > Len(f) THEN [index |-> idx, staled_bytes |-> staled, ok |-> TRUE]
    ELSE LET cmd == f[i]
             new_pos == pos + RecLen(cmd)
         IN  CASE cmd.op = "Set" ->
                    load_log_remove_uncounted(gen, f, i + 1, new_pos,
                             IndexInsert(idx, cmd.key,
                                         CommandPos(gen, pos, new_pos - pos)),
                             staled + (IF cmd.key \in DOMAIN idx
                                       THEN idx[cmd.key].len ELSE 0))
               [] cmd.op = "Remove" ->
                    load_log_remove_uncounted(gen, f, i + 1, new_pos,
                             IndexRemove(idx, cmd.key),
                             staled + (IF cmd.key \in DOMAIN idx
                                       THEN idx[cmd.key].len ELSE 0))
               [] OTHER ->
                    [index |-> idx, staled_bytes |-> staled, ok |-> FALSE]

\* load_log: replays the records of one file from the record number i on,
\* at byte offset pos.  Returns the index, the stale bytes found and
\* whether every record decoded.
RECURSIVE load_log(_, _, _, _, _, _)
load_log(gen, f, i, pos, idx, staled) ==
    IF i > Len(f) THEN [index |-> idx, staled_bytes |-> staled, ok |-> TRUE]
    ELSE LET cmd == f[i]
             new_pos == pos + RecLen(cmd)
         IN  CASE cmd.op = "Set" ->
                    load_log(gen, f, i + 1, new_pos,
                             IndexInsert(idx, cmd.key,
                                         CommandPos(gen, pos, new_pos - pos)),
                             staled + (IF cmd.key \in DOMAIN idx
                                       THEN idx[cmd.key].len ELSE 0))
               [] cmd.op = "Remove" ->
                    load_log(gen, f, i + 1, new_pos,
                             IndexRemove(idx, cmd.key),
                             staled + (IF cmd.key \in DOMAIN idx
                                       THEN idx[cmd.key].len ELSE 0)
                                    + (new_pos - pos))
               [] OTHER ->
                    [index |-> idx, staled_bytes |-> staled, ok |-> FALSE]

\* The loop of KvStore::open over gen_list.
RECURSIVE load_all(_, _, _, _)
load_all(dsk, gen_list, idx, staled) ==
    IF gen_list = <<>> THEN [index |-> idx, staled_bytes |-> staled, ok |-> TRUE]
    ELSE LET r == load_log(Head(gen_list), dsk[Head(gen_list)], 1, 0, idx, 0)
         IN  IF ~r.ok THEN [index |-> idx, staled_bytes |-> staled, ok |-> FALSE]
             ELSE load_all(dsk, Tail(gen_list), r.index, staled + r.staled_bytes)


\* ------------------------------------------------------------------- state
VARIABLES
    up,           \* TRUE while a KvStore value exists (open returned it)
    disk,         \* the directory: generation -> records of <gen>.log
    index,        \* KvStore.index: key -> CommandPos
    readers,      \* KvStore.readers: the generations with a reader
    current_gen,  \* KvStore.current_gen
    writer,       \* KvStore.writer: file it appends to, pos, unflushed buffer
    stale_bytes,  \* KvStore.stale_bytes
    created,      \* history: the generations of the files created, in order
    last,         \* history: key -> value of the last applied set, or NoVal
    held,         \* history: key -> highest generation of its index entries
    lastop,       \* history: the last call, its result, the compaction in it
    faults,       \* history: number of I/O failures and crashes so far
    room          \* the bounds of this behaviour: generations, records

vars == <<up, disk, index, readers, current_gen, writer, stale_bytes,
          created, last, held, lastop, faults, room>>

\* BufWriterWithPos over the file of generation gen.
Writer(gen, pos, buf) == [gen |-> gen, pos |-> pos, buf |-> buf]
NoWriter == Writer(0, 0, <<>>)

\* The fields of KvStore together with the directory.
Store(d, i, r, g, w, s, c) ==
    [disk |-> d, index |-> i, readers |-> r, current_gen |-> g,
     writer |-> w, stale_bytes |-> s, created |-> c]
Cur == Store(disk, index, readers, current_gen, writer, stale_bytes, created)
\* No KvStore value: only the directory is left.
Down(d, c) == Store(d, EmptyIndex, {}, 0, NoWriter, 0, c)

\* A flush to a file written from its start instead of appended to.
FlushWriterOverwrites(d, w) ==
    IF w.gen \in DOMAIN d /\ w.buf # <<>> THEN [d EXCEPT ![w.gen] = w.buf]
    ELSE d

\* BufWriter::flush (also run when a BufWriter is dropped): the buffered
\* records reach the end of the file the writer has open.
FlushWriter(d, w) ==
    IF w.gen \in DOMAIN d THEN [d EXCEPT ![w.gen] = @ \o w.buf] ELSE d

\* OpenOptions::new().create(true).append(true).open(): <gen>.log exists
\* afterwards, empty if it was created.
CreateFile(s, gen) ==
    IF gen \in DOMAIN s.disk THEN s
    ELSE [s EXCEPT !.disk = [g \in DOMAIN s.disk \cup {gen} |->
                                IF g = gen THEN <<>> ELSE s.disk[g]],
                   !.created = Append(@, gen)]

\* new_log_file: creates <gen>.log if absent, opens it for appending and
\* registers a reader.  f names the step that fails: "create" the
\* OpenOptions::open, "reader" the File::open of the reader, "none" nothing.
new_log_file(s, gen, f) ==
    CASE f = "create" -> [s |-> s, ok |-> FALSE, writer |-> NoWriter]
      [] f = "reader" -> [s |-> CreateFile(s, gen), ok |-> FALSE,
                          writer |-> NoWriter]
      [] OTHER -> [s |-> [CreateFile(s, gen) EXCEPT !.readers = @ \cup {gen}],
                   ok |-> TRUE, writer |-> Writer(gen, 0, <<>>)]

\* The outcome of a call: the store and directory it leaves, its result,
\* whether the process is still running, and for a call that started a
\* compaction how it ended and the store as it was when it started.
NoPre == Down(EmptyDisk, <<>>)
Outcome(s, res, alive, comp, pre) ==
    [s |-> s, res |-> res, alive |-> alive, comp |-> comp, pre |-> pre]

\* A fault plan: the step f that fails ("none": no step fails), the number n
\* of index entries compaction has copied by then, the set D of stale files
\* it has deleted by then and the file x whose deletion fails.
Plan(f, n, D, x) == [f |-> f, n |-> n, D |-> D, x |-> x]
NoFault == Plan("none", 0, {}, 0)

\* -------------------------------------------------------------------- open
\* gen_list.first() in place of gen_list.last().
LastGenIsFirst(gen_list) == IF gen_list = <<>> THEN 0 ELSE gen_list[1]

\* gen_list.last().unwrap_or(&0)
LastGen(gen_list) == IF gen_list = <<>> THEN 0 ELSE gen_list[Len(gen_list)]

\* KvStore::open, from the creation of the new log on: w is the result of
\* new_log_file on the store rebuilt by the replay.
OpenNewLog(w) ==
    IF ~w.ok
    THEN Outcome(Down(w.s.disk, w.s.created), "err_io", TRUE, "none", NoPre)
    ELSE Outcome([w.s EXCEPT !.writer = w.writer], "ok", TRUE, "none", NoPre)

\* KvStore::open, after the replay l of the files of gen_list.
OpenLoaded(d, c, p, gen_list, l) ==
    IF p.f = "io_open" THEN Outcome(Down(d, c), "err_io", TRUE, "none", NoPre)
    ELSE IF ~l.ok THEN Outcome(Down(d, c), "err_serde", TRUE, "none", NoPre)
    ELSE OpenNewLog(
             new_log_file(Store(d, l.index, DOMAIN d, LastGen(gen_list) + 1,
                                NoWriter, l.staled_bytes, c),
                          LastGen(gen_list) + 1,
                          CASE p.f = "io_wcreate" -> "create"
                            [] p.f = "io_wreader" -> "reader"
                            [] OTHER -> "none"))

\* KvStore::open on directory d under fault plan p.
Open(d, c, p) ==
    OpenLoaded(d, c, p, sorted_gen_list(DOMAIN d),
               load_all(d, sorted_gen_list(DOMAIN d), EmptyIndex, 0))

\* --------------------------------------------------------------------- get
\* get that takes a missing key for an error.
GetMissIsError(s, k) ==
    IF k \notin DOMAIN s.index THEN [res |-> "err_unexpected", val |-> NoVal]
    ELSE LET cp == s.index[k]
         IN  IF cp.gen \notin s.readers \/ cp.gen \notin DOMAIN s.disk
             THEN [res |-> "panic", val |-> NoVal]
             ELSE LET cmd == ReadAt(s.disk[cp.gen], cp.pos, cp.len)
                  IN  CASE cmd.op = "Set" -> [res |-> "ok", val |-> cmd.val]
                        [] cmd.op = "Remove" ->
                             [res |-> "err_unexpected", val |-> NoVal]
                        [] OTHER -> [res |-> "err_serde", val |-> NoVal]

\* KvStore::get: the value, NoVal for None; res tells a value from an error.
Get(s, k) ==
    IF k \notin DOMAIN s.index THEN [res |-> "ok", val |-> NoVal]
    ELSE LET cp == s.index[k]
         IN  IF cp.gen \notin s.readers \/ cp.gen \notin DOMAIN s.disk
             THEN [res |-> "panic", val |-> NoVal]
             ELSE LET cmd == ReadAt(s.disk[cp.gen], cp.pos, cp.len)
                  IN  CASE cmd.op = "Set" -> [res |-> "ok", val |-> cmd.val]
                        [] cmd.op = "Remove" ->
                             [res |-> "err_unexpected", val |-> NoVal]
                        [] OTHER -> [res |-> "err_serde", val |-> NoVal]

Crashed(d, c, res, comp, pre) == Outcome(Down(d, c), res, FALSE, comp, pre)

\* ----------------------------------------------------------------- compact
\* The iteration order of the BTreeMap index.
KeyOrder == <<"a", "b">>
IndexKeys(idx) == SelectSeq(KeyOrder, LAMBDA k : k \in DOMAIN idx)

Min(a, b) == IF a < b THEN a ELSE b
Max(a, b) == IF a > b THEN a ELSE b

\* The copy loop of compact with new_pos left at 0.
RECURSIVE CopyEntriesNoAdvance(_, _, _, _, _, _, _)
CopyEntriesNoAdvance(s, compaction_gen, idx, cw, new_pos, ks, n) ==
    IF ks = <<>> \/ n = 0 THEN [index |-> idx, cw |-> cw, panic |-> FALSE]
    ELSE LET k == Head(ks)
             cmd_pos == idx[k]
         IN  IF cmd_pos.gen \notin s.readers
             THEN [index |-> idx, cw |-> cw, panic |-> TRUE]
             ELSE LET f == IF cmd_pos.gen \in DOMAIN s.disk
                           THEN s.disk[cmd_pos.gen] ELSE <<>>
                      rec == ReadAt(f, cmd_pos.pos, cmd_pos.len)
                      avail == Max(0, Min(cmd_pos.len, FileLen(f) - cmd_pos.pos))
                      len == IF rec.op # "Torn" THEN cmd_pos.len ELSE avail
                      bytes == IF rec.op # "Torn" THEN <<rec>>
                               ELSE IF avail > 0 THEN <<Torn(avail)>> ELSE <<>>
                      cw1 == Writer(cw.gen, cw.pos + len, cw.buf \o bytes)
                  IN  CopyEntriesNoAdvance(s, compaction_gen,
                                  IndexInsert(idx, k,
                                      CommandPos(compaction_gen, new_pos, len)),
                                  cw1, 0, Tail(ks), n - 1)

\* The loop of compact over index.values_mut(), for the first n entries:
\* copies the bytes each entry addresses to the compaction writer cw and
\* redirects the entry.  panic: an entry's generation has no reader.
RECURSIVE CopyEntries(_, _, _, _, _, _, _)
CopyEntries(s, compaction_gen, idx, cw, new_pos, ks, n) ==
    IF ks = <<>> \/ n = 0 THEN [index |-> idx, cw |-> cw, panic |-> FALSE]
    ELSE LET k == Head(ks)
             cmd_pos == idx[k]
         IN  IF cmd_pos.gen \notin s.readers
             THEN [index |-> idx, cw |-> cw, panic |-> TRUE]
             ELSE LET f == IF cmd_pos.gen \in DOMAIN s.disk
                           THEN s.disk[cmd_pos.gen] ELSE <<>>
                      rec == ReadAt(f, cmd_pos.pos, cmd_pos.len)
                      avail == Max(0, Min(cmd_pos.len, FileLen(f) - cmd_pos.pos))
                      len == IF rec.op # "Torn" THEN cmd_pos.len ELSE avail
                      bytes == IF rec.op # "Torn" THEN <<rec>>
                               ELSE IF avail > 0 THEN <<Torn(avail)>> ELSE <<>>
                      cw1 == Writer(cw.gen, cw.pos + len, cw.buf \o bytes)
                  IN  CopyEntries(s, compaction_gen,
                                  IndexInsert(idx, k,
                                      CommandPos(compaction_gen, new_pos, len)),
                                  cw1, cw1.pos, Tail(ks), n - 1)

\* StaledGens that also takes the compaction log for staled.
StaledGensInclusive(rds, compaction_gen) == {g \in rds : g <= compaction_gen}

\* StaledGens that keeps the log the writer had when compact was called.
StaledGensBelowCurrent(rds, compaction_gen) ==
    {g \in rds : g < compaction_gen - 1}

\* The generations compact deletes.
StaledGens(rds, compaction_gen) == {g \in rds : g < compaction_gen}

\* The writer's generation three above the current one.
RotatedGenSkips(g) == g + 3

\* The compaction log one generation below the current one.
CompactionGenBelow(g) == g - 1

\* The generations of compact: the compaction log and the new writer log.
CompactionGen(g) == g + 1
RotatedGen(g) == g + 2

RemoveFiles(d, gone) == [g \in DOMAIN d \ gone |-> d[g]]

\* RemoveStaled that deletes the files and keeps their readers.
RemoveStaledKeepsReaders(s, gone, unread) ==
    [s EXCEPT !.disk = RemoveFiles(@, gone)]

\* The file-removal loop of compact: the files of gone are deleted, and the
\* readers of unread are dropped.
RemoveStaled(s, gone, unread) ==
    [s EXCEPT !.readers = @ \ unread, !.disk = RemoveFiles(@, gone)]

\* compact from the flush of the compaction log on: pre is the store when
\* compact was called, s3 the store after the copy loop, cw the compaction
\* writer, staled the generations to delete.
CompactFinish(pre, p, s3, cw, staled) ==
    CASE p.f = "io_copy" ->
            Outcome([s3 EXCEPT !.disk = FlushWriter(@, cw)],
                    "err_io", TRUE, "failed", pre)
      [] p.f = "crash_copy" ->
            Crashed(FlushWriter(s3.disk, cw), s3.created, "crash", "failed", pre)
      [] p.f = "crash_torn" ->
            Crashed(FlushWriter(s3.disk, Writer(cw.gen, cw.pos,
                                                Append(cw.buf, Torn(10)))),
                    s3.created, "crash", "failed", pre)
      [] p.f = "io_cflush" -> Outcome(s3, "err_io", TRUE, "failed", pre)
      [] p.f = "io_delete" ->
            Outcome(RemoveStaled([s3 EXCEPT !.disk = FlushWriter(@, cw)],
                                 p.D, p.D \cup {p.x}),
                    "err_io", TRUE, "failed", pre)
      [] p.f = "crash_delete" ->
            Crashed(RemoveFiles(FlushWriter(s3.disk, cw), p.D), s3.created,
                    "crash", "failed", pre)
      [] OTHER ->
            Outcome([RemoveStaled([s3 EXCEPT !.disk = FlushWriter(@, cw)],
                                  staled, staled)
                        EXCEPT !.stale_bytes = 0],
                    "ok", TRUE, "done", pre)

\* compact after the copy loop with result c on store s.
CompactCopied(pre, p, s, c, compaction_gen) ==
    IF c.panic
    THEN Crashed(FlushWriter(s.disk, c.cw), s.created, "panic", "failed", pre)
    ELSE CompactFinish(pre, p, [s EXCEPT !.index = c.index], c.cw,
                       StaledGens(s.readers, compaction_gen))

\* compact from the creation t of the compaction log on.
CompactTarget(pre, p, t, compaction_gen) ==
    IF ~t.ok THEN Outcome(t.s, "err_io", TRUE, "failed", pre)
    ELSE CompactCopied(pre, p, t.s,
             CopyEntries(t.s, compaction_gen, t.s.index, t.writer, 0,
                         IndexKeys(t.s.index),
                         IF p.f \in {"io_copy", "crash_copy", "crash_torn"}
                         THEN p.n ELSE Cardinality(Keys)),
             compaction_gen)

\* compact once the writer is rotated: s2 is the store with the new writer.
CompactRotated(pre, p, s2, compaction_gen) ==
    IF p.f = "crash_rotated"
    THEN Crashed(s2.disk, s2.created, "crash", "failed", pre)
    ELSE CompactTarget(pre, p,
             new_log_file(s2, compaction_gen,
                          CASE p.f = "io_tcreate" -> "create"
                            [] p.f = "io_treader" -> "reader"
                            [] OTHER -> "none"),
             compaction_gen)

\* compact from the creation w of the new writer log on; assigning
\* self.writer drops, and so flushes, the old writer.
CompactWriter(pre, p, w, compaction_gen) ==
    IF ~w.ok THEN Outcome(w.s, "err_io", TRUE, "failed", pre)
    ELSE CompactRotated(pre, p,
             [w.s EXCEPT !.disk = FlushWriter(@, pre.writer),
                         !.writer = w.writer],
             compaction_gen)

\* KvStore::compact on store s under fault plan p.
Compact(s, p) ==
    CompactWriter(s, p,
        new_log_file([s EXCEPT !.current_gen = RotatedGen(s.current_gen)],
                     RotatedGen(s.current_gen),
                     CASE p.f = "io_wcreate" -> "create"
                       [] p.f = "io_wreader" -> "reader"
                       [] OTHER -> "none"),
        CompactionGen(s.current_gen))

\* The ways a compaction started on store s can be interrupted.
CompactPlans(s) ==
    LET ks == IndexKeys(s.index)
        staled == StaledGens(s.readers, CompactionGen(s.current_gen))
    IN  {Plan(f, 0, {}, 0) : f \in {"io_wcreate", "io_wreader", "io_tcreate",
                                     "io_treader", "io_cflush", "crash_rotated"}}
        \cup {Plan(f, n, {}, 0) : f \in {"io_copy", "crash_torn"},
                                  n \in 0..(Len(ks) - 1)}
        \cup {Plan("crash_copy", n, {}, 0) : n \in 0..Len(ks)}
        \cup {Plan("crash_delete", 0, D, 0) : D \in SUBSET staled}
        \cup UNION {{Plan("io_delete", 0, D, x) : x \in staled \ D} :
                       D \in SUBSET staled}

\* ------------------------------------------------------------ set / remove
\* serde_json::to_writer(&mut self.writer, &cmd)? ; self.writer.flush()? :
\* f = "io_write": the write fails with part of the record buffered;
\* f = "io_flush": the flush fails and the record stays in the buffer.
WriteCmd(s, cmd, f) ==
    LET pos == s.writer.pos
        w1 == Writer(s.writer.gen, pos + RecLen(cmd), Append(s.writer.buf, cmd))
    IN  CASE f = "io_write" ->
               [s |-> [s EXCEPT !.writer = Writer(@.gen, @.pos + 10,
                                                  Append(@.buf, Torn(10)))],
                ok |-> FALSE, pos |-> pos, len |-> 0]
          [] f = "io_flush" ->
               [s |-> [s EXCEPT !.writer = w1],
                ok |-> FALSE, pos |-> pos, len |-> 0]
          [] OTHER ->
               [s |-> [s EXCEPT !.disk = FlushWriter(@, w1),
                                !.writer = Writer(w1.gen, w1.pos, <<>>)],
                ok |-> TRUE, pos |-> pos, len |-> w1.pos - pos]

\* SetApplied with an insert that keeps the entry a key already has.
SetAppliedKeepsOld(s, a, k) ==
    [a.s EXCEPT !.index = IF k \in DOMAIN @ THEN @
                          ELSE IndexInsert(@, k, CommandPos(a.s.current_gen,
                                                            a.pos, a.len)),
                !.stale_bytes = @ + (IF k \in DOMAIN s.index
                                     THEN s.index[k].len ELSE 0)]

\* set up to the compaction check: the index and the counter after a
\* successful append.
SetApplied(s, a, k) ==
    [a.s EXCEPT !.index = IndexInsert(@, k,
                              CommandPos(a.s.current_gen, a.pos, a.len)),
                !.stale_bytes = @ + (IF k \in DOMAIN s.index
                                     THEN s.index[k].len ELSE 0)]

\* set from the compaction check on.
SetCheck(mid, p) ==
    IF mid.stale_bytes > COMPACTION_THRESHOLD THEN Compact(mid, p)
    ELSE Outcome(mid, "ok", TRUE, "none", NoPre)

\* SetWritten that updates the index and the counter whether or not the
\* append succeeded.
SetWrittenUnchecked(s, k, p, a) ==
    IF ~a.ok THEN Outcome(SetApplied(s, a, k), "err_io", TRUE, "none", NoPre)
    ELSE SetCheck(SetApplied(s, a, k), p)

\* set after the append a.
SetWritten(s, k, p, a) ==
    IF ~a.ok THEN Outcome(a.s, "err_io", TRUE, "none", NoPre)
    ELSE SetCheck(SetApplied(s, a, k), p)

\* KvStore::set under fault plan p.
SetCall(s, k, v, p) == SetWritten(s, k, p, WriteCmd(s, CmdSet(k, v), p.f))

\* RemoveWritten that leaves the key in the index.
RemoveWrittenKeepsKey(s, k, a) ==
    IF ~a.ok THEN Outcome(a.s, "err_io", TRUE, "none", NoPre)
    ELSE Outcome([a.s EXCEPT !.stale_bytes = @ + s.index[k].len],
                 "ok", TRUE, "none", NoPre)

\* remove after the append a.
RemoveWritten(s, k, a) ==
    IF ~a.ok THEN Outcome(a.s, "err_io", TRUE, "none", NoPre)
    ELSE Outcome([a.s EXCEPT !.index = IndexRemove(@, k),
                             !.stale_bytes = @ + s.index[k].len],
                 "ok", TRUE, "none", NoPre)

\* remove that appends its record before it looks the key up.
RemoveCallAppendsFirst(s, k, p) ==
    IF k \in DOMAIN s.index
    THEN RemoveWritten(s, k, WriteCmd(s, CmdRemove(k), p.f))
    ELSE Outcome(WriteCmd(s, CmdRemove(k), p.f).s, "KeyNotFound", TRUE,
                 "none", NoPre)

\* KvStore::remove under fault plan p.
RemoveCall(s, k, p) ==
    IF k \in DOMAIN s.index
    THEN RemoveWritten(s, k, WriteCmd(s, CmdRemove(k), p.f))
    ELSE Outcome(s, "KeyNotFound", TRUE, "none", NoPre)

AppendPlans == {Plan(f, 0, {}, 0) : f \in {"io_write", "io_flush"}}

OpenPlans == {Plan(f, 0, {}, 0) : f \in {"io_open", "io_wcreate", "io_wreader"}}


\* ----------------------------------------------------------------- actions
\* What get returns for every key on store s.
ViewOf(s) == [k \in Keys |-> Get(s, k)]
\* What a caller can observe of store s: the keys of the index and what get
\* returns for every key.
Snapshot(s) == [keys |-> DOMAIN s.index, get |-> ViewOf(s)]
NoView == [keys |-> {}, get |-> [k \in {} |-> 0]]

Op(op, k, val, res, comp, pre, view) ==
    [op |-> op, key |-> k, val |-> val, res |-> res, comp |-> comp,
     pre |-> pre, view |-> view]

\* The variables of the store and the directory after a call with outcome o.
Install(o) ==
    /\ disk' = o.s.disk
    /\ index' = o.s.index
    /\ readers' = o.s.readers
    /\ current_gen' = o.s.current_gen
    /\ writer' = o.s.writer
    /\ stale_bytes' = o.s.stale_bytes
    /\ created' = o.s.created
    /\ held' = [k \in Keys |->
                    IF k \in DOMAIN o.s.index
                    THEN Max(held[k], o.s.index[k].gen) ELSE held[k]]

\* Generations stay within the bound of the model.
WithinBound(o) ==
    /\ o.s.current_gen <= room.gen
    /\ \A i \in 1..Len(o.s.created) : o.s.created[i] <= room.gen

\* Number of records in the directory.
RECURSIVE TotalRecs(_)
TotalRecs(d) ==
    IF DOMAIN d = {} THEN 0
    ELSE LET g == CHOOSE x \in DOMAIN d : TRUE
         IN  Len(d[g]) + TotalRecs(RemoveFiles(d, {g}))
HasRoom == TotalRecs(disk) + Len(writer.buf) < room.recs

Charge(p) ==
    /\ p.f # "none" => faults < MaxFaults
    /\ faults' = IF p.f = "none" THEN faults ELSE faults + 1
    /\ UNCHANGED room

Room(gen, recs) == [gen |-> gen, recs |-> recs]

\* KvStore::open has returned store s on an empty directory.
OpenedAs(s) ==
    /\ up = TRUE
    /\ disk = s.disk
    /\ index = s.index
    /\ readers = s.readers
    /\ current_gen = s.current_gen
    /\ writer = s.writer
    /\ stale_bytes = s.stale_bytes
    /\ created = s.created
    /\ last = [k \in Keys |-> NoVal]
    /\ held = [k \in Keys |-> 0]
    /\ lastop = Op("open", "", NoVal, "ok", "none", NoPre, NoView)
    /\ faults = 0
Opened == OpenedAs(Open(EmptyDisk, <<>>, NoFault).s)

Init == Opened /\ room = Room(MaxGen, MaxRecs)
InitSmall == Opened /\ room = Room(MaxGenSmall, MaxRecsSmall)

\* The history of a call of set, remove or open with outcome o.
SetDone(k, v, o) ==
    /\ WithinBound(o)
    /\ Install(o)
    /\ up' = o.alive
    /\ last' = IF o.res = "ok" \/ o.comp # "none"
               THEN [last EXCEPT ![k] = v] ELSE last
    /\ lastop' = Op("set", k, NoVal, o.res, o.comp, o.pre, NoView)

RemoveDone(k, o) ==
    /\ Install(o)
    /\ up' = o.alive
    /\ last' = IF o.res = "ok" THEN [last EXCEPT ![k] = NoVal] ELSE last
    /\ lastop' = Op("remove", k, NoVal, o.res, o.comp, o.pre, NoView)

OpenDone(o) ==
    /\ WithinBound(o)
    /\ Install(o)
    /\ up' = (o.res = "ok")
    /\ lastop' = Op("open", "", NoVal, o.res, lastop.comp, lastop.pre,
                    lastop.view)
    /\ UNCHANGED last

\* A call of set, remove or open under fault plan p.
SetUnder(k, v, p) == Charge(p) /\ SetDone(k, v, SetCall(Cur, k, v, p))
RemoveUnder(k, p) == Charge(p) /\ RemoveDone(k, RemoveCall(Cur, k, p))
OpenUnder(p) == Charge(p) /\ OpenDone(Open(disk, created, p))

\* store.set(k, v), every I/O operation in it succeeding.
Set(k, v) ==
    /\ up
    /\ HasRoom
    /\ SetUnder(k, v, NoFault)

\* store.remove(k), every I/O operation in it succeeding.
Remove(k) ==
    /\ up
    /\ k \in DOMAIN index => HasRoom
    /\ RemoveUnder(k, NoFault)

\* store.get(k); a missing reader is a panic, which ends the process.
GetKey(k) ==
    /\ up
    /\ LET r == Get(Cur, k)
       IN  IF r.res = "panic"
           THEN /\ Install(Crashed(FlushWriter(disk, writer), created,
                                   "panic", "none", NoPre))
                /\ up' = FALSE
           ELSE UNCHANGED <<up, disk, index, readers, current_gen, writer,
                            stale_bytes, created, held>>
    /\ lastop' = Op("get", k, Get(Cur, k).val, Get(Cur, k).res, "none",
                    NoPre, NoView)
    /\ UNCHANGED <<last, faults, room>>

\* The KvStore value is dropped; dropping the writer flushes it.
Close ==
    /\ up
    /\ Install(Crashed(FlushWriter(disk, writer), created, "ok", "none", NoPre))
    /\ up' = FALSE
    /\ lastop' = Op("close", "", NoVal, "ok", lastop.comp, lastop.pre,
                    Snapshot(Cur))
    /\ UNCHANGED <<last, faults, room>>

\* KvStore::open on the directory, every I/O operation in it succeeding.
OpenStore ==
    /\ ~up
    /\ OpenUnder(NoFault)

\* set or remove whose append to the log fails (the write or the flush).
SetAppendFails(k, v) ==
    /\ up
    /\ HasRoom
    /\ \E p \in AppendPlans : SetUnder(k, v, p)

RemoveAppendFails(k) ==
    /\ up
    /\ HasRoom
    /\ k \in DOMAIN index
    /\ \E p \in AppendPlans : RemoveUnder(k, p)

\* set whose compaction is interrupted by an I/O failure or a crash.
SetCompactFails(k, v) ==
    /\ up
    /\ HasRoom
    /\ \E p \in CompactPlans(SetApplied(Cur, WriteCmd(Cur, CmdSet(k, v), "none"), k)) :
          /\ SetApplied(Cur, WriteCmd(Cur, CmdSet(k, v), "none"), k).stale_bytes
                > COMPACTION_THRESHOLD
          /\ SetUnder(k, v, p)

\* open that fails on the directory or on the new log.
OpenFails ==
    /\ ~up
    /\ \E p \in OpenPlans : OpenUnder(p)

\* The process dies between two calls; what the writer buffers is lost.
Crash ==
    /\ up
    /\ faults < MaxFaults
    /\ faults' = faults + 1
    /\ Install(Crashed(disk, created, "crash", "none", NoPre))
    /\ up' = FALSE
    /\ lastop' = Op("crash", "", NoVal, "crash", "none", NoPre, NoView)
    /\ UNCHANGED <<last, room>>

\* The calls of the API on a machine whose I/O never fails.
Next ==
    \/ \E k \in Keys, v \in Values : Set(k, v)
    \/ \E k \in Keys : Remove(k)
    \/ \E k \in Keys : GetKey(k)
    \/ Close
    \/ OpenStore

\* ... and with appends to the log that fail.
NextAppendFaults ==
    \/ Next
    \/ \E k \in Keys, v \in Values : SetAppendFails(k, v)
    \/ \E k \in Keys : RemoveAppendFails(k)

\* ... and with every I/O failure and crash of the model.
NextFaults ==
    \/ NextAppendFaults
    \/ \E k \in Keys, v \in Values : SetCompactFails(k, v)
    \/ OpenFails
    \/ Crash

Spec == Init /\ [][Next]_vars
SpecAppendFaults == InitSmall /\ [][NextAppendFaults]_vars
SpecFaults == Init /\ [][NextFaults]_vars


\* ------------------------------------------------------------------ claims
None == [res |-> "ok", val |-> NoVal]
Some(v) == [res |-> "ok", val |-> v]
IsSetOf(r, k) == r.op = "Set" /\ r.key = k
IsRemoveOf(r, k) == r.op = "Remove" /\ r.key = k
\* Some log file holds a record r with P(r, k).
OnDisk(P(_, _), k) ==
    \E g \in DOMAIN disk : \E i \in 1..Len(disk[g]) : P(disk[g][i], k)

\* C1: last write wins.  While the store is open, get(k) returns the value of
\* the most recent set(k, v) for every key whose last applied command is a
\* set, whatever calls of open, set, remove, get and compactions came before.
C1_LastWriteWins ==
    up => \A k \in Keys : last[k] # NoVal => Get(Cur, k) = Some(last[k])

\* A get of a key after a set that compacted the log, the key having been
\* set to another value before.
C1_Witness ==
    /\ up
    /\ lastop.op = "get"
    /\ last[lastop.key] = 1
    /\ Get(Cur, lastop.key) = Some(1)
    /\ index[lastop.key].gen > 1
    /\ \E g \in DOMAIN disk : g < index[lastop.key].gen

\* C2: recovery equivalence.  A store opened on a directory whose store was
\* closed before has the keys in its index the closed store had, and get
\* returns for every key what it returned before the close.
C2_RecoveryEquivalence ==
    (up /\ lastop.op = "open" /\ lastop.view # NoView)
        => Snapshot(Cur) = lastop.view

\* A store reopened with a key set in one file and removed in a later one,
\* and another key live.
C2_Witness ==
    /\ up
    /\ lastop.op = "open"
    /\ lastop.view # NoView
    /\ Cardinality(DOMAIN disk) >= 3
    /\ DOMAIN index # {}
    /\ \E k \in Keys \ DOMAIN index : OnDisk(IsRemoveOf, k)

\* C3: after a successful remove(k), and until the next set(k, _), get(k)
\* returns None and remove(k) fails with KeyNotFound.
C3_RemovedStaysRemoved ==
    up => \A k \in Keys :
             last[k] = NoVal =>
                /\ Get(Cur, k) = None
                /\ RemoveCall(Cur, k, NoFault).res = "KeyNotFound"

\* The second remove of a key, which was set and removed before.
C3_Witness ==
    /\ up
    /\ lastop.op = "remove"
    /\ lastop.res = "KeyNotFound"
    /\ last[lastop.key] = NoVal
    /\ OnDisk(IsSetOf, lastop.key)
    /\ OnDisk(IsRemoveOf, lastop.key)

\* C4: an interrupted compaction yields no incorrect data.  When a compaction
\* stopped by a crash or an I/O failure is followed by an open of the
\* directory, the opened store has the keys, and get returns the values, of
\* the store at the moment the compaction started.
C4_InterruptedCompactionHarmless ==
    (up /\ lastop.op = "open" /\ lastop.res = "ok" /\ lastop.comp = "failed")
        => Snapshot(Cur) = Snapshot(lastop.pre)

\* C5: compaction preserves reads.  After a set whose compaction completed,
\* the index has the keys, and get returns the results, of the store at the
\* moment the compaction started.
C5_CompactionPreservesReads ==
    (up /\ lastop.op = "set" /\ lastop.comp = "done")
        => Snapshot(Cur) = Snapshot(lastop.pre)

\* A completed compaction of a store with a live key and records in two
\* logs.
C5_Witness ==
    /\ up
    /\ lastop.op = "set"
    /\ lastop.comp = "done"
    /\ Cardinality(DOMAIN lastop.pre.disk) >= 2
    /\ DOMAIN index = Keys
    /\ \A k \in Keys : index[k].gen = current_gen - 1

\* The variables of the store and of its directory.
store_vars == <<disk, index, readers, current_gen, writer, stale_bytes, created>>

\* C6: remove(k) of a key that is not in the index returns KeyNotFound and
\* changes neither the logs, nor the writer, nor the index, nor the counter
\* of stale bytes, nor the current generation.
C6_RemoveAbsentNoEffect ==
    [][\A k \in Keys :
          (Remove(k) /\ k \notin DOMAIN index)
              => (lastop'.res = "KeyNotFound" /\ UNCHANGED store_vars)]_vars

\* remove of a key that was never set, on a store that holds another key.
C6_Witness ==
    /\ up
    /\ lastop.op = "remove"
    /\ lastop.res = "KeyNotFound"
    /\ ~OnDisk(IsSetOf, lastop.key)
    /\ DOMAIN index # {}

\* C7: get(k) of a key that is not in the index returns None and no error,
\* and no get changes the index, the counter of stale bytes, the current
\* generation or the logs.
C7_GetIsPure ==
    [][\A k \in Keys :
          GetKey(k)
              => /\ UNCHANGED <<index, stale_bytes, current_gen, disk>>
                 /\ k \notin DOMAIN index
                        => lastop'.res = "ok" /\ lastop'.val = NoVal]_vars

\* A get that missed, on a store that holds another key and stale bytes.
C7_Witness ==
    /\ up
    /\ lastop.op = "get"
    /\ lastop.key \notin DOMAIN index
    /\ lastop.res = "ok"
    /\ lastop.val = NoVal
    /\ DOMAIN index # {}
    /\ stale_bytes > 0

RECURSIVE DiskBytes(_)
DiskBytes(d) ==
    IF DOMAIN d = {} THEN 0
    ELSE LET g == CHOOSE x \in DOMAIN d : TRUE
         IN  FileLen(d[g]) + DiskBytes(RemoveFiles(d, {g}))

\* C9: after a completed compaction the log files hold no more bytes than
\* they held when the compaction started.
C9_CompactionFootprint ==
    (lastop.op = "set" /\ lastop.comp = "done")
        => DiskBytes(disk) <= DiskBytes(lastop.pre.disk)

\* A completed compaction that copied a live record and dropped stale ones.
C9_Witness ==
    /\ up
    /\ lastop.op = "set"
    /\ lastop.comp = "done"
    /\ DOMAIN index # {}
    /\ 0 < DiskBytes(disk)
    /\ DiskBytes(disk) < DiskBytes(lastop.pre.disk)

\* Every entry of the index addresses bytes of a log file, flushed to it.
IndexFlushed ==
    \A k \in DOMAIN index :
        /\ index[k].gen \in DOMAIN disk
        /\ index[k].pos + index[k].len <= FileLen(disk[index[k].gen])

\* C10: durability ordering.  A set or a remove whose append or flush fails
\* leaves the index and the counter of stale bytes unchanged, and after
\* every call each entry of the index addresses flushed bytes.
C10_DurabilityOrdering ==
    [][/\ ( \/ \E k \in Keys, v \in Values : SetAppendFails(k, v)
            \/ \E k \in Keys : RemoveAppendFails(k) )
          => UNCHANGED <<index, stale_bytes>>
       /\ IndexFlushed']_vars

\* A set of a key in the index failed, its record is left in the buffer of
\* the writer, and get returns the value set before.
C10_Witness ==
    /\ up
    /\ lastop.op = "set"
    /\ lastop.res = "err_io"
    /\ lastop.key \in DOMAIN index
    /\ writer.buf # <<>>
    /\ Get(Cur, lastop.key) = Some(last[lastop.key])

\* The places <<generation, number of the record>> of the commands of key k
\* in directory d.
Places(d, k) ==
    {pl \in UNION {{<<g, i>> : i \in 1..Len(d[g])} : g \in DOMAIN d} :
        d[pl[1]][pl[2]].key = k}

\* The place of the last command of key k in log order: ascending
\* generation, then append order.
LastPlace(d, k) ==
    CHOOSE pl \in Places(d, k) :
        \A q \in Places(d, k) :
            q[1] < pl[1] \/ (q[1] = pl[1] /\ q[2] <= pl[2])

\* Key k has a last command in directory d and it is a Set.
LastIsSet(d, k) ==
    /\ Places(d, k) # {}
    /\ d[LastPlace(d, k)[1]][LastPlace(d, k)[2]].op = "Set"

\* Where the record at place pl of directory d is: its generation, byte
\* offset and byte length.
PosOfPlace(d, pl) ==
    [gen |-> pl[1], pos |-> OffsetOf(d[pl[1]], pl[2]),
     len |-> RecLen(d[pl[1]][pl[2]])]

\* C11: index invariant.  Between the calls of an open store, a key is in
\* the index iff the last command of the key in log order is a Set, and
\* then its entry is the generation, offset and length of that Set record.
C11_IndexInvariant ==
    up => \A k \in Keys :
             /\ k \in DOMAIN index <=> LastIsSet(disk, k)
             /\ k \in DOMAIN index
                    => index[k] = PosOfPlace(disk, LastPlace(disk, k))

\* A key set, removed and set again: its entry addresses the third record
\* of the log, and the store holds stale bytes.
C11_Witness ==
    /\ up
    /\ stale_bytes > 0
    /\ \E k \in DOMAIN index :
          /\ index[k].pos > 0
          /\ Cardinality(Places(disk, k)) >= 3
          /\ OnDisk(IsRemoveOf, k)

\* C12: compaction trigger.  After every successful set and every successful
\* remove the counter of stale bytes is at most the threshold: a call that
\* leaves it above runs the compaction before it returns.
C12_StaleWithinThreshold ==
    (up /\ lastop.op \in {"set", "remove"} /\ lastop.res = "ok")
        => stale_bytes <= COMPACTION_THRESHOLD

\* Sum of the lengths of the records index idx references.
RECURSIVE LiveBytes(_)
LiveBytes(idx) ==
    IF DOMAIN idx = {} THEN 0
    ELSE LET k == CHOOSE x \in DOMAIN idx : TRUE
         IN  idx[k].len + LiveBytes(IndexRemove(idx, k))

\* C13: stale-byte accounting.  Between the calls of an open store the
\* counter of stale bytes is the number of bytes in the log files minus the
\* lengths of the records the index references.
C13_StaleAccounting ==
    up => stale_bytes = DiskBytes(disk) - LiveBytes(index)

\* C14: recovery computes the stale bytes.  When open has returned, the
\* counter of stale bytes is the number of bytes of the replayed log files
\* minus the lengths of the records the rebuilt index references: the
\* superseded Set records and every Remove record.
C14_RecoveredStale ==
    (up /\ lastop.op = "open")
        => stale_bytes = DiskBytes(disk) - LiveBytes(index)

\* A store opened on logs that hold a Remove record and a live key.
C14_Witness ==
    /\ up
    /\ lastop.op = "open"
    /\ Len(created) >= 2
    /\ stale_bytes > 0
    /\ DOMAIN index # {}
    /\ \E k \in Keys : OnDisk(IsRemoveOf, k)

\* C15: post-state of a completed compaction.  Every entry of the index has
\* the generation of the compaction log, the only log files and the only
\* readers left are those of the compaction log and of the new writer, and
\* the counter of stale bytes is zero.
C15_CompactionPostState ==
    (up /\ lastop.op = "set" /\ lastop.comp = "done")
        => /\ \A k \in DOMAIN index :
                 index[k].gen = CompactionGen(lastop.pre.current_gen)
           /\ DOMAIN disk = {CompactionGen(lastop.pre.current_gen),
                             RotatedGen(lastop.pre.current_gen)}
           /\ readers = DOMAIN disk
           /\ writer.gen = RotatedGen(lastop.pre.current_gen)
           /\ stale_bytes = 0

\* A completed compaction of a store that had three log files and entries
\* of its index in two of them.
C15_Witness ==
    /\ up
    /\ lastop.op = "set"
    /\ lastop.comp = "done"
    /\ Cardinality(DOMAIN lastop.pre.disk) >= 3
    /\ Cardinality({lastop.pre.index[k].gen : k \in DOMAIN lastop.pre.index}) = 2
    /\ lastop.pre.stale_bytes > COMPACTION_THRESHOLD

\* Sum of the lengths of the entries of index idx for the first n keys of
\* the sequence ks.
RECURSIVE LenBefore(_, _, _)
LenBefore(idx, ks, n) ==
    IF n = 0 THEN 0 ELSE LenBefore(idx, ks, n - 1) + idx[ks[n]].len

\* C16: compaction layout.  After a completed compaction the records the
\* index references lie in the compaction log in ascending key order, one
\* after the other from offset 0; every entry has the length it had before,
\* and the compaction log is as long as the sum of these lengths.
C16_CompactionLayout ==
    (up /\ lastop.op = "set" /\ lastop.comp = "done")
        => /\ \A i \in 1..Len(IndexKeys(index)) :
                 /\ index[IndexKeys(index)[i]].pos
                        = LenBefore(index, IndexKeys(index), i - 1)
                 /\ index[IndexKeys(index)[i]].len
                        = lastop.pre.index[IndexKeys(index)[i]].len
           /\ FileLen(disk[CompactionGen(lastop.pre.current_gen)])
                 = LenBefore(index, IndexKeys(index), Len(IndexKeys(index)))

\* A completed compaction that copied the records of two keys.
C16_Witness ==
    /\ up
    /\ lastop.op = "set"
    /\ lastop.comp = "done"
    /\ DOMAIN index = Keys
    /\ \E k \in Keys : index[k].pos > 0

\* C17: the generation of the index entry of a key never decreases.  Every
\* entry the index holds for a key after a step has a generation that is
\* at least the generation of every entry it held for the key before, over
\* set, remove and set again, compaction, close and open.
C17_IndexGenNonDecreasing ==
    [][\A k \in DOMAIN index' : index'[k].gen >= held[k]]_vars

\* A key has an entry in the writer's log after its entry was moved by a
\* compaction, it was removed, and the store was closed and opened.
C17_Witness ==
    /\ up
    /\ Len(created) >= 4
    /\ \E k \in DOMAIN index :
          /\ index[k].gen = current_gen
          /\ held[k] = current_gen
          /\ OnDisk(IsRemoveOf, k)
    /\ \E i \in 1..Len(created) - 1 : created[i] = created[i + 1] + 1

\* The log files of the next state are those of this state with the one
\* record cmd appended to the log of the current generation.
AppendsOnly(cmd) ==
    /\ current_gen' = current_gen
    /\ writer'.gen = current_gen
    /\ DOMAIN disk' = DOMAIN disk
    /\ \A g \in DOMAIN disk :
          disk'[g] = IF g = current_gen THEN Append(disk[g], cmd) ELSE disk[g]

\* C18: a successful set or remove that runs no compaction appends one
\* record, its command, to the log of the current generation; the current
\* generation, the set of log files and the bytes the log files held are
\* unchanged.
C18_AppendFrame ==
    [][/\ \A k \in Keys, v \in Values :
             (Set(k, v) /\ lastop'.res = "ok" /\ lastop'.comp = "none")
                 => AppendsOnly(CmdSet(k, v))
       /\ \A k \in Keys :
             (Remove(k) /\ lastop'.res = "ok")
                 => AppendsOnly(CmdRemove(k))]_vars

\* A successful remove on a store with records in an older log file and in
\* the log of the writer before the Remove record.
C18_Witness ==
    /\ up
    /\ lastop.op = "remove"
    /\ lastop.res = "ok"
    /\ Len(disk[current_gen]) >= 2
    /\ \E g \in DOMAIN disk : g < current_gen /\ disk[g] # <<>>

\* C19: no log file is destroyed while the index references it.  In every
\* state, also after a compaction that failed part-way, every entry of the
\* index names a generation with a log file and a reader, and neither get
\* nor compact has met a missing reader.
C19_NoDanglingEntry ==
    /\ lastop.res # "panic"
    /\ up => \A k \in DOMAIN index :
                index[k].gen \in DOMAIN disk /\ index[k].gen \in readers

\* The highest generation of the log files of directory d.
Highest(d) == CHOOSE g \in DOMAIN d : \A h \in DOMAIN d : h <= g

\* open has just created the one log file of generation gen and made it
\* the log of the writer.
OpenCreated(gen) ==
    /\ created' = Append(created, gen)
    /\ DOMAIN disk' = DOMAIN disk \cup {gen}
    /\ gen \notin DOMAIN disk
    /\ disk'[gen] = <<>>
    /\ \A g \in DOMAIN disk : disk'[g] = disk[g]
    /\ current_gen' = gen
    /\ writer'.gen = gen

\* The store open returns on the empty directory has the one log file of
\* generation gen.
OpenedOnEmpty(gen) ==
    Len(created) = 1 => (created = <<gen>> /\ DOMAIN disk = {gen})

\* C20 as stated: open creates one log file, of the highest generation in
\* the directory plus 1, or of generation 0 in a directory without log
\* files.
C20_OpenCreatesNextOrZero ==
    /\ [](OpenedOnEmpty(0))
    /\ [][OpenStore => OpenCreated(IF DOMAIN disk = {} THEN 0
                                   ELSE Highest(disk) + 1)]_vars

\* C20, amended: open creates one log file, of the highest generation in
\* the directory plus 1, or of generation 1 in a directory without log
\* files.
C20_OpenCreatesNextOrOne ==
    /\ [](OpenedOnEmpty(1))
    /\ [][OpenStore => OpenCreated(IF DOMAIN disk = {} THEN 1
                                   ELSE Highest(disk) + 1)]_vars

\* A store opened on a directory where a compaction has deleted the log
\* files of the lowest generations.
C20_Witness ==
    /\ up
    /\ lastop.op = "open"
    /\ Len(created) >= 4
    /\ 1 \notin DOMAIN disk
    /\ current_gen = created[Len(created)]
    /\ Cardinality(DOMAIN disk) = 3

=============================================================================
